---- MODULE Spec2Model ----
(***************************************************************************)
(* Verification model of pydatajson's federation and indicators modules.   *)
(*                                                                         *)
(*   Spec       federation.py: remove_datasets_from_ckan and               *)
(*              push_dataset_to_ckan against a nondeterministic remote     *)
(*              registry (every remote call may succeed or raise).         *)
(*   SpecRemoveLive  remove_datasets_from_ckan alone, under weak fairness  *)
(*              of its steps (every remote call returns).                  *)
(*   SpecCount  indicators.py: _count_fields_recursive applied to two      *)
(*              records under one field-requirement schema.                *)
(*   SpecIndic  indicators.py: generate_catalogs_indicators, from the      *)
(*              per-catalog records to the network-wide record.            *)
(*   SpecDates  indicators.py: _generate_date_indicators and               *)
(*              _days_from_last_update on one catalog.                     *)
(*   SpecEqual  indicators.py: datasets_equal applied to two datasets in   *)
(*              both orders.                                               *)
(*   SpecReconciler  indicators.py: _federation_indicators on a local and  *)
(*              a central catalog.                                         *)
(***************************************************************************)
EXTENDS Integers, Sequences, FiniteSets, TLC

VARIABLES
    op,                 \* which entry point runs: "remove" or "push"
    pc,                 \* position inside the running function
    filter_in,          \* remove_datasets_from_ckan arguments
    filter_out,
    only_time_series,
    organization,
    identifiers,        \* federation.py:79  (list, or the iteration order of the set of :99)
    org_identifiers,    \* federation.py:88
    search_result,      \* federation.py:86 / :92  last package_search response
    start,              \* federation.py:90
    has_license,        \* push_dataset_to_ckan: dataset.get('license') is truthy
    pushed_package,     \* federation.py:49 / :52  id of the response, "None" before
    returned,           \* value returned by push_dataset_to_ckan, "None" before
    calls,              \* log of every call made to a collaborator, in order
    cf_pc,              \* SpecCount: "first", "second", "done"
    cf_fields,          \* the schema (`fields` of _count_fields_recursive)
    cf_dataset,         \* the record of the first call
    cf_result,          \* key_count returned by the first call
    cf_other,           \* the record of the second call
    cf_other_result,    \* key_count returned by the second call
    gi_pc,              \* SpecIndic: position in generate_catalogs_indicators
    central_catalog,    \* indicators.py:27   the argument as passed, "None" when omitted
    catalog_fields,     \* indicators.py:465  the schema loaded from fields.json
    catalogs,           \* indicators.py:53   the catalogs read
    indicators_list,    \* indicators.py:55
    fields,             \* indicators.py:57   field counts of the whole network
    network_indicators, \* indicators.py:72
    di_pc,              \* SpecDates: position in _generate_date_indicators
    di_catalog,         \* the catalog passed to _generate_date_indicators
    dias_ultima_actualizacion,  \* indicators.py:305
    di_index,           \* number of datasets the loop of indicators.py:318 has taken
    actualizados,       \* indicators.py:314
    desactualizados,    \* indicators.py:315
    periodicity_amount, \* indicators.py:316
    di_result,          \* indicators.py:303  the dict returned, <<>> before
    eq_pc,              \* SpecEqual: "forward", "backward", "done"
    eq_dataset,         \* datasets_equal arguments
    eq_other,
    eq_fields_dataset,
    eq_fields_distribution,
    eq_result,          \* outcome of datasets_equal(dataset, other), "None" before
    eq_swapped,         \* outcome of datasets_equal(other, dataset), "None" before
    eq_diff,            \* outcome of datasets_equal(dataset, other, return_diff=True)
    fi_pc,              \* SpecReconciler: position in _federation_indicators
    fi_catalog,         \* the local catalog
    fi_central_catalog, \* indicators.py:130  the central catalog read
    fi_index,           \* datasets taken by the loop of :139 or of :160
    fi_federados,       \* indicators.py:131  federados
    fi_no_federados,    \* indicators.py:132  no_federados
    datasets_federados_eliminados_cant,  \* indicators.py:133
    datasets_federados,             \* indicators.py:134
    datasets_no_federados,          \* indicators.py:135
    datasets_federados_eliminados,  \* indicators.py:136
    filtered_central,   \* indicators.py:156
    fi_result           \* indicators.py:178  the dict returned, <<>> before

fedVars == <<op, pc, filter_in, filter_out, only_time_series, organization,
             identifiers, org_identifiers, search_result, start,
             has_license, pushed_package, returned, calls>>

cntVars == <<cf_pc, cf_fields, cf_dataset, cf_result, cf_other, cf_other_result>>

indVars == <<gi_pc, central_catalog, catalog_fields, catalogs, indicators_list, fields, network_indicators>>

dateVars == <<di_pc, di_catalog, dias_ultima_actualizacion, di_index,
              actualizados, desactualizados, periodicity_amount, di_result>>

eqVars == <<eq_pc, eq_dataset, eq_other, eq_fields_dataset, eq_fields_distribution,
            eq_result, eq_swapped, eq_diff>>

recVars == <<fi_pc, fi_catalog, fi_central_catalog, fi_index, fi_federados,
             fi_no_federados, datasets_federados_eliminados_cant, datasets_federados,
             datasets_no_federados, datasets_federados_eliminados, filtered_central,
             fi_result>>

vars == <<fedVars, cntVars, indVars, dateVars, eqVars, recVars>>

-----------------------------------------------------------------------------
(* Bounds of the explored inputs *)

\* the registry reports counts up to MaxPages full pages (plus one)
MaxPages == 2

\* rows of every package_search call
PageSize == 500

Ids == {"a", "b", "c"}

\* what the search collaborator (get_datasets) can return
FilterResults == {<<>>, <<"a">>, <<"a", "b">>, <<"b", "b">>}

\* the ids of one package_search page
PageResults == {<<>>, <<"b">>, <<"b", "c">>}

\* the total count a package_search response can report
Counts == {k * PageSize + d : k \in 0..MaxPages, d \in {0, 1}} \ {0}

NoResult == [count |-> 0, results |-> <<>>]

-----------------------------------------------------------------------------
(* Helpers *)

Range(s) == {s[i] : i \in DOMAIN s}

\* every duplicate-free ordering of a finite set: iteration order of a Python set
Orderings(S) ==
    {s \in [1..Cardinality(S) -> S] : \A i, j \in 1..Cardinality(S) : i # j => s[i] # s[j]}

\* Python truthiness of an optional str/dict argument ("" is the empty str or dict)
Truthy(x) == x \notin {"None", ""}

\* one entry of the call log: the action, its arguments (start and rows of a
\* package_search, id of a dataset_purge), how it ended ("ok", or the exception
\* raised) and what it returned (count and results of a search, the identifiers
\* of get_datasets, the id of a pushed package)
Call(action, st, id, outcome, count, results) ==
    [action |-> action, start |-> st, rows |-> IF action = "package_search" THEN PageSize ELSE 0,
     id |-> id, outcome |-> outcome, count |-> count, results |-> results]

-----------------------------------------------------------------------------
(* remove_datasets_from_ckan *)

\* mutant: the flag is tested with `is not None`, which holds for False too
DatajsonFilters_NotNone(fi, fo, ots) == Truthy(fi) \/ Truthy(fo) \/ ots \in BOOLEAN

\* federation.py:80
DatajsonFilters(fi, fo, ots) == Truthy(fi) \/ Truthy(fo) \/ ots

\* mutant: off-by-one loop condition
MorePages_Inclusive(count, st) == count >= st

\* federation.py:91  loop condition of the pagination
MorePages(count, st) == count > st

\* mutant: the two sources are united instead of intersected
PurgePlan_Union(idents, orgIdents, filtersActive) ==
    IF filtersActive
    THEN Orderings(Range(idents) \cup Range(orgIdents))
    ELSE {orgIdents}

\* federation.py:98-101  the orderings in which the identifiers can be purged
PurgePlan(idents, orgIdents, filtersActive) ==
    IF filtersActive
    THEN Orderings(Range(idents) \cap Range(orgIdents))
    ELSE {orgIdents}

\* mutant: the exception is swallowed and the same call is issued again
Raise_Retry(action, st, id, outcome) ==
    /\ calls' = Append(calls, Call(action, st, id, outcome, 0, <<>>))
    /\ pc' = pc

\* mutant: the exception is swallowed and the function goes on to its purges
Raise_Swallow(action, st, id, outcome) ==
    /\ calls' = Append(calls, Call(action, st, id, outcome, 0, <<>>))
    /\ pc' = "purge"

\* an exception raised by a collaborator propagates: the function ends there
Raise(action, st, id, outcome) ==
    /\ calls' = Append(calls, Call(action, st, id, outcome, 0, <<>>))
    /\ pc' = "failed"

\* federation.py:81-83
GetDatasets ==
    /\ op = "remove" /\ pc = "filters"
    /\ IF DatajsonFilters(filter_in, filter_out, only_time_series)
       THEN \/ \E found \in FilterResults :
                 /\ identifiers' = identifiers \o found
                 /\ calls' = Append(calls, Call("get_datasets", 0, "", "ok", 0, found))
                 /\ pc' = "organization"
            \/ /\ Raise("get_datasets", 0, "", "error")
               /\ UNCHANGED identifiers
       ELSE /\ pc' = "organization"
            /\ UNCHANGED <<identifiers, calls>>
    /\ UNCHANGED <<cntVars, indVars, dateVars, eqVars, recVars>>
    /\ UNCHANGED <<op, filter_in, filter_out, only_time_series, organization,
                   org_identifiers, search_result, start, has_license,
                   pushed_package, returned>>

\* federation.py:84-90
SearchFirstPage ==
    /\ op = "remove" /\ pc = "organization"
    /\ IF Truthy(organization)
       THEN \/ \E count \in Counts, page \in PageResults :
                 /\ search_result' = [count |-> count, results |-> page]
                 /\ org_identifiers' = page
                 /\ start' = PageSize
                 /\ calls' = Append(calls, Call("package_search", 0, "", "ok", count, page))
                 /\ pc' = "paging"
            \/ /\ Raise("package_search", 0, "", "error")
               /\ UNCHANGED <<search_result, org_identifiers, start>>
       ELSE /\ pc' = "purge"
            /\ UNCHANGED <<search_result, org_identifiers, start, calls>>
    /\ UNCHANGED <<cntVars, indVars, dateVars, eqVars, recVars>>
    /\ UNCHANGED <<op, filter_in, filter_out, only_time_series, organization,
                   identifiers, has_license, pushed_package, returned>>

\* mutant: start is left where it was
NextStart_Stuck(st) == st

\* federation.py:96  start += 500
NextStart(st) == st + PageSize

\* most calls a run can have made when it asks for one more page: the
\* get_datasets call and one package_search per page the counts allow
MaxCallsBeforePage == MaxPages + 1

\* federation.py:91-96  one iteration of the pagination loop; the call log
\* is capped at a length no run of the loop exceeds
SearchNextPage ==
    /\ op = "remove" /\ pc = "paging"
    /\ MorePages(search_result.count, start)
    /\ Len(calls) <= MaxCallsBeforePage
    /\ \/ \E count \in Counts, page \in PageResults :
            /\ search_result' = [count |-> count, results |-> page]
            /\ org_identifiers' = org_identifiers \o page
            /\ start' = NextStart(start)
            /\ calls' = Append(calls, Call("package_search", start, "", "ok", count, page))
            /\ pc' = "paging"
       \/ /\ Raise("package_search", start, "", "error")
          /\ UNCHANGED <<search_result, org_identifiers, start>>
    /\ UNCHANGED <<cntVars, indVars, dateVars, eqVars, recVars>>
    /\ UNCHANGED <<op, filter_in, filter_out, only_time_series, organization,
                   identifiers, has_license, pushed_package, returned>>

\* federation.py:91, 98-101  the loop ends and the two sources are combined
CombineSources ==
    /\ op = "remove" /\ pc = "paging"
    /\ ~MorePages(search_result.count, start)
    /\ identifiers' \in PurgePlan(identifiers, org_identifiers,
                                  DatajsonFilters(filter_in, filter_out, only_time_series))
    /\ pc' = "purge"
    /\ UNCHANGED <<cntVars, indVars, dateVars, eqVars, recVars>>
    /\ UNCHANGED <<op, filter_in, filter_out, only_time_series, organization,
                   org_identifiers, search_result, start, has_license,
                   pushed_package, returned, calls>>

\* number of dataset_purge calls already made
PurgesIssued == Cardinality({i \in DOMAIN calls : calls[i].action = "dataset_purge"})

\* federation.py:103-104  one iteration of the purge loop
PurgeNext ==
    /\ op = "remove" /\ pc = "purge"
    /\ PurgesIssued < Len(identifiers)
    /\ LET identifier == identifiers[PurgesIssued + 1] IN
         \/ /\ calls' = Append(calls, Call("dataset_purge", 0, identifier, "ok", 0, <<>>))
            /\ pc' = "purge"
         \/ Raise("dataset_purge", 0, identifier, "error")
    /\ UNCHANGED <<cntVars, indVars, dateVars, eqVars, recVars>>
    /\ UNCHANGED <<op, filter_in, filter_out, only_time_series, organization,
                   identifiers, org_identifiers, search_result, start,
                   has_license, pushed_package, returned>>

\* federation.py:103  the purge loop is exhausted and the function returns None
RemoveReturn ==
    /\ op = "remove" /\ pc = "purge"
    /\ PurgesIssued = Len(identifiers)
    /\ pc' = "done"
    /\ UNCHANGED <<cntVars, indVars, dateVars, eqVars, recVars>>
    /\ UNCHANGED <<op, filter_in, filter_out, only_time_series, organization,
                   identifiers, org_identifiers, search_result, start,
                   has_license, pushed_package, returned, calls>>

-----------------------------------------------------------------------------
(* push_dataset_to_ckan *)

\* federation.py:36-46
LicenseList ==
    /\ op = "push" /\ pc = "license"
    /\ IF has_license
       THEN \/ /\ calls' = Append(calls, Call("license_list", 0, "", "ok", 0, <<>>))
               /\ pc' = "update"
            \/ Raise("license_list", 0, "", "error")
       ELSE /\ pc' = "update"
            /\ UNCHANGED calls
    /\ UNCHANGED <<cntVars, indVars, dateVars, eqVars, recVars>>
    /\ UNCHANGED <<op, filter_in, filter_out, only_time_series, organization,
                   identifiers, org_identifiers, search_result, start,
                   has_license, pushed_package, returned>>

\* mutant: a bare `except:` creates the package on any failure of the update
AfterUpdateRaises_Any(outcome) == "create"

\* federation.py:51  where control goes when package_update raises `outcome`
AfterUpdateRaises(outcome) == IF outcome = "NotFound" THEN "create" ELSE "failed"

\* federation.py:48-51
PackageUpdate ==
    /\ op = "push" /\ pc = "update"
    /\ \/ \E id \in Ids :
            /\ calls' = Append(calls, Call("package_update", 0, id, "ok", 0, <<>>))
            /\ pushed_package' = id
            /\ pc' = "close"
       \/ \E outcome \in {"NotFound", "error"} :
            /\ calls' = Append(calls, Call("package_update", 0, "", outcome, 0, <<>>))
            /\ pc' = AfterUpdateRaises(outcome)
            /\ UNCHANGED pushed_package
    /\ UNCHANGED <<cntVars, indVars, dateVars, eqVars, recVars>>
    /\ UNCHANGED <<op, filter_in, filter_out, only_time_series, organization,
                   identifiers, org_identifiers, search_result, start,
                   has_license, returned>>

\* federation.py:51-53
PackageCreate ==
    /\ op = "push" /\ pc = "create"
    /\ \/ \E id \in Ids :
            /\ calls' = Append(calls, Call("package_create", 0, id, "ok", 0, <<>>))
            /\ pushed_package' = id
            /\ pc' = "close"
       \/ \E outcome \in {"NotFound", "error"} :
            /\ Raise("package_create", 0, "", outcome)
            /\ UNCHANGED pushed_package
    /\ UNCHANGED <<cntVars, indVars, dateVars, eqVars, recVars>>
    /\ UNCHANGED <<op, filter_in, filter_out, only_time_series, organization,
                   identifiers, org_identifiers, search_result, start,
                   has_license, returned>>

\* federation.py:55-56
PushReturn ==
    /\ op = "push" /\ pc = "close"
    /\ returned' = pushed_package
    /\ pc' = "done"
    /\ UNCHANGED <<cntVars, indVars, dateVars, eqVars, recVars>>
    /\ UNCHANGED <<op, filter_in, filter_out, only_time_series, organization,
                   identifiers, org_identifiers, search_result, start,
                   has_license, pushed_package, calls>>

-----------------------------------------------------------------------------
(* Specification of federation.py *)

\* federation.py:64-65, 78-79 and 12-13, 29-33: state on entry of either function
InitFederation ==
    /\ op \in {"remove", "push"}
    /\ pc = IF op = "remove" THEN "filters" ELSE "license"
    /\ filter_in \in IF op = "remove" THEN {"None", "", "some"} ELSE {"None"}
    /\ filter_out \in IF op = "remove" THEN {"None", "some"} ELSE {"None"}
    /\ only_time_series \in IF op = "remove" THEN BOOLEAN ELSE {FALSE}
    /\ organization \in IF op = "remove" THEN {"None", "", "org"} ELSE {"None"}
    /\ has_license \in IF op = "push" THEN BOOLEAN ELSE {FALSE}
    /\ identifiers = <<>>
    /\ org_identifiers = <<>>
    /\ search_result = NoResult
    /\ start = 0
    /\ pushed_package = "None"
    /\ returned = "None"
    /\ calls = <<>>

\* the other machines do not run
IdleCount ==
    /\ cf_pc = "idle" /\ cf_fields = <<>> /\ cf_dataset = <<>> /\ cf_result = <<>>
    /\ cf_other = <<>> /\ cf_other_result = <<>>

IdleIndic ==
    /\ gi_pc = "idle" /\ central_catalog = "None" /\ catalog_fields = <<>> /\ catalogs = <<>>
    /\ indicators_list = <<>> /\ fields = <<>> /\ network_indicators = <<>>

\* an absent value: None
Nothing == <<>>

\* a value that is there
Just(x) == <<x>>

IdleDates ==
    /\ di_pc = "idle" /\ di_catalog = <<>> /\ dias_ultima_actualizacion = Nothing
    /\ di_index = 0 /\ actualizados = 0 /\ desactualizados = 0
    /\ periodicity_amount = <<>> /\ di_result = <<>>

IdleEqual ==
    /\ eq_pc = "idle" /\ eq_dataset = <<>> /\ eq_other = <<>>
    /\ eq_fields_dataset = <<>> /\ eq_fields_distribution = <<>>
    /\ eq_result = "None" /\ eq_swapped = "None"
    /\ eq_diff = [raised |-> FALSE, diff |-> <<>>]

IdleReconciler ==
    /\ fi_pc = "idle" /\ fi_catalog = <<>> /\ fi_central_catalog = <<>>
    /\ fi_index = 0 /\ fi_federados = 0 /\ fi_no_federados = 0
    /\ datasets_federados_eliminados_cant = 0
    /\ datasets_federados = <<>> /\ datasets_no_federados = <<>>
    /\ datasets_federados_eliminados = <<>>
    /\ filtered_central = <<>> /\ fi_result = <<>>

Init ==
    /\ InitFederation
    /\ IdleCount /\ IdleIndic /\ IdleDates /\ IdleEqual /\ IdleReconciler

Next ==
    \/ GetDatasets
    \/ SearchFirstPage
    \/ SearchNextPage
    \/ CombineSources
    \/ PurgeNext
    \/ RemoveReturn
    \/ LicenseList
    \/ PackageUpdate
    \/ PackageCreate
    \/ PushReturn

Spec == Init /\ [][Next]_vars

-----------------------------------------------------------------------------
(* Properties of federation.py, stated on the call log *)

CallsOf(action) == SelectSeq(calls, LAMBDA c : c.action = action)

\* the identifiers for which dataset_purge was issued
PurgedIds == {c.id : c \in Range(CallsOf("dataset_purge"))}

\* the identifiers returned by the search collaborator
FilterIds == UNION {Range(c.results) : c \in Range(CallsOf("get_datasets"))}

\* the identifiers returned by the pages of the organization search
OrgIds == UNION {Range(c.results) : c \in Range(CallsOf("package_search"))}

FiltersGiven == filter_in \notin {"None", ""} \/ filter_out \notin {"None", ""} \/ only_time_series

OrgGiven == organization \notin {"None", ""}

RemoveDone == op = "remove" /\ pc = "done"

\* C1: a finished remove_datasets_from_ckan has purged exactly the planned
\* identifier set: the intersection of the filter identifiers and the
\* organization identifiers when both sources are active (one purge per
\* element of the intersection), the identifiers of the one active source
\* otherwise.
C1_PurgesPlannedSet ==
    RemoveDone =>
        /\ (FiltersGiven /\ OrgGiven) =>
              /\ PurgedIds = FilterIds \cap OrgIds
              /\ Len(CallsOf("dataset_purge")) = Cardinality(FilterIds \cap OrgIds)
        /\ (FiltersGiven /\ ~OrgGiven) => PurgedIds = FilterIds
        /\ (~FiltersGiven /\ OrgGiven) => PurgedIds = OrgIds

\* C1 witness: filter ids {a,b}, organization ids {b,c}, one purge, for b
C1_Witness ==
    /\ RemoveDone /\ FiltersGiven /\ OrgGiven
    /\ FilterIds = {"a", "b"} /\ OrgIds = {"b", "c"}
    /\ Len(CallsOf("dataset_purge")) = 1
    /\ CallsOf("dataset_purge")[1].id = "b"

\* C2: with no filter_in, no filter_out, only_time_series false and no
\* organization, no collaborator is ever called: no package_search, no
\* dataset_purge, no get_datasets.
C2_NoFiltersNoCalls ==
    (op = "remove" /\ ~FiltersGiven /\ ~OrgGiven) => calls = <<>>

C2_Witness == RemoveDone /\ ~FiltersGiven /\ ~OrgGiven /\ calls = <<>>

\* C3: dataset_purge is issued at most once per distinct identifier.
C3_AtMostOnePurgePerId ==
    \A i, j \in DOMAIN calls :
        (i # j /\ calls[i].action = "dataset_purge" /\ calls[j].action = "dataset_purge")
            => calls[i].id # calls[j].id

RECURSIVE ConcatResults(_)
ConcatResults(s) ==
    IF s = <<>> THEN <<>>
    ELSE ConcatResults(SubSeq(s, 1, Len(s) - 1)) \o s[Len(s)].results

\* every successful package_search so far reported the total count n
ConstantCount(n) ==
    \A c \in Range(CallsOf("package_search")) : c.outcome = "ok" => c.count = n

\* the starts the pagination must visit for a total count n
ExpectedStarts(n) == {0} \cup {m * PageSize : m \in {k \in 1..(MaxPages + 2) : k * PageSize < n}}

\* C4: the package_search calls have rows = 500 and start = 0, 500, 1000, ...
\* in this order; when the registry reports a constant count N, no start other
\* than 0 reaches N and a finished pagination has visited every multiple of
\* 500 below N; the organization identifier list is the concatenation of the
\* returned pages, and without filters it is what gets purged, in that order.
C4_Pagination ==
    op = "remove" =>
        LET S == CallsOf("package_search") IN
        /\ \A k \in DOMAIN S : S[k].rows = 500 /\ S[k].start = (k - 1) * 500
        /\ \A n \in Counts :
              ConstantCount(n) =>
                 /\ \A k \in DOMAIN S : k > 1 => S[k].start < n
                 /\ (OrgGiven /\ pc \in {"purge", "done"}) =>
                        {S[k].start : k \in DOMAIN S} = ExpectedStarts(n)
        /\ pc \in {"paging", "purge", "done"} => org_identifiers = ConcatResults(S)
        /\ (RemoveDone /\ OrgGiven /\ ~FiltersGiven) =>
              [i \in DOMAIN CallsOf("dataset_purge") |-> CallsOf("dataset_purge")[i].id]
                  = ConcatResults(S)

\* C4 witness: N = 1001 gives starts 0, 500, 1000 and the three pages are purged
C4_Witness ==
    /\ RemoveDone /\ OrgGiven /\ ~FiltersGiven
    /\ ConstantCount(1001)
    /\ [k \in DOMAIN CallsOf("package_search") |-> CallsOf("package_search")[k].start]
          = <<0, 500, 1000>>
    /\ Len(CallsOf("dataset_purge")) = Len(ConcatResults(CallsOf("package_search")))
    /\ Len(CallsOf("dataset_purge")) >= 3

\* a call that raised, other than the NotFound of package_update
Propagates(c) ==
    /\ c.outcome # "ok"
    /\ ~(c.action = "package_update" /\ c.outcome = "NotFound")

\* C5: a failed remote call (other than the NotFound of package_update) is the
\* last call of the operation, which has then failed: it is not reissued, no
\* call follows it (none that would undo an earlier purge either).
C5_FailurePropagates ==
    \A i \in DOMAIN calls :
        Propagates(calls[i]) => (i = Len(calls) /\ pc = "failed")

\* C5 witness: a purge fails after an earlier purge went through
C5_Witness ==
    /\ op = "remove" /\ pc = "failed"
    /\ Len(CallsOf("dataset_purge")) = 2
    /\ CallsOf("dataset_purge")[1].outcome = "ok"
    /\ CallsOf("dataset_purge")[2].outcome = "error"

\* C6: package_create is issued only right after a package_update that raised
\* NotFound, and at most once; package_update is issued at most once and
\* before any package_create; a finished push has issued package_update and
\* returns the id of the response of the one call of the two that succeeded.
C6_UpdateThenCreate ==
    op = "push" =>
        /\ Len(CallsOf("package_update")) <= 1
        /\ Len(CallsOf("package_create")) <= 1
        /\ \A i \in DOMAIN calls :
              calls[i].action = "package_create" =>
                 /\ i > 1
                 /\ calls[i - 1].action = "package_update"
                 /\ calls[i - 1].outcome = "NotFound"
        /\ pc = "done" =>
              /\ Len(CallsOf("package_update")) = 1
              /\ LET good == SelectSeq(calls, LAMBDA c :
                                 c.action \in {"package_update", "package_create"}
                                 /\ c.outcome = "ok")
                 IN Len(good) = 1 /\ returned = good[1].id

\* C6 witness: the update raised NotFound, the create succeeded, its id is returned
C6_Witness ==
    /\ op = "push" /\ pc = "done"
    /\ Len(CallsOf("package_create")) = 1
    /\ CallsOf("package_update")[1].outcome = "NotFound"
    /\ returned = CallsOf("package_create")[1].id
    /\ returned \in Ids

-----------------------------------------------------------------------------
(* indicators.py: _count_fields_recursive                                   *)
(*                                                                          *)
(* A record (a Python dict read from JSON) is the sequence of its items,    *)
(* [key, kind, items]: kind is the type of the value ("none", "false",      *)
(* "empty", "str", "dict", "list") and items holds the records inside it    *)
(* (the dict itself, or the elements of the list).  A schema is the         *)
(* sequence of its items [key, label, fields]: label is "requerido",        *)
(* "recomendado" or "optativo" for a leaf and "nested" for a dict value,    *)
(* whose schema is `fields`.                                                *)

\* longest list of records explored
MaxListLen == 2

Labels == {"requerido", "recomendado", "optativo"}

Item(key, kind, items) == [key |-> key, kind |-> kind, items |-> items]

Field(key, label, sub) == [key |-> key, label |-> label, fields |-> sub]

\* records found inside a list or dict value
InnerRecords ==
    { <<>>,
      <<Item("x", "none", <<>>)>>,
      <<Item("x", "str", <<>>), Item("y", "false", <<>>)>>,
      <<Item("y", "empty", <<>>)>> }

RecordLists == UNION {[1..n -> InnerRecords] : n \in 0..MaxListLen}

\* the values explored under the key "dataset"
NestedValues ==
    {<<>>, <<Item("dataset", "str", <<>>)>>}
    \cup {<<Item("dataset", "dict", <<r>>)>> : r \in InnerRecords}
    \cup {<<Item("dataset", "list", l)>> : l \in RecordLists}

Records == {t \o n : t \in {<<>>, <<Item("title", "none", <<>>)>>}, n \in NestedValues}

InnerSchemas ==
    {x \o y : x \in {<<>>} \cup {<<Field("x", l, <<>>)>> : l \in Labels},
              y \in {<<>>, <<Field("y", "optativo", <<>>)>>}}

Schemas ==
    {t \o n : t \in {<<>>, <<Field("title", "recomendado", <<>>)>>},
              n \in {<<>>, <<Field("dataset", "requerido", <<>>)>>}
                    \cup {<<Field("dataset", "nested", f)>> : f \in InnerSchemas}}

\* indicators.py:487-494
KeyCount0 ==
    [recomendado |-> 0, optativo |-> 0, requerido |-> 0,
     total_optativo |-> 0, total_recomendado |-> 0, total_requerido |-> 0]

\* indicators.py:519  'total_' + v
TotalKey(v) ==
    CASE v = "requerido" -> "total_requerido"
      [] v = "recomendado" -> "total_recomendado"
      [] v = "optativo" -> "total_optativo"

\* indicators.py:513-514
AddCounts(a, b) == [key \in DOMAIN a |-> a[key] + b[key]]

\* indicators.py:521  k in dataset
HasKey(dataset, k) == \E i \in DOMAIN dataset : dataset[i].key = k

\* dataset[k]
ValueOf(dataset, k) == dataset[CHOOSE i \in DOMAIN dataset : dataset[i].key = k]

\* indicators.py:504-509  the records a nested schema is counted on
Elements(dataset, k) ==
    IF ~HasKey(dataset, k) THEN << <<>> >>
    ELSE LET v == ValueOf(dataset, k) IN
         CASE v.kind = "list" -> v.items
           [] v.kind = "dict" -> <<v.items[1]>>
           [] OTHER -> << <<>> >>

\* mutant: the total is counted only for the fields the record has
LeafCount_TotalIfPresent(dataset, k, v) ==
    IF HasKey(dataset, k)
    THEN [KeyCount0 EXCEPT ![TotalKey(v)] = @ + 1, ![v] = @ + 1]
    ELSE KeyCount0

\* mutant: `if dataset.get(k)` instead of `if k in dataset`
LeafCount_Truthy(dataset, k, v) ==
    [KeyCount0 EXCEPT ![TotalKey(v)] = @ + 1,
                      ![v] = @ + (IF HasKey(dataset, k)
                                     /\ ValueOf(dataset, k).kind \notin {"none", "false", "empty"}
                                  THEN 1 ELSE 0)]

\* indicators.py:517-522  what one leaf of the schema adds to key_count
LeafCount(dataset, k, v) ==
    [KeyCount0 EXCEPT ![TotalKey(v)] = @ + 1,
                      ![v] = @ + (IF HasKey(dataset, k) THEN 1 ELSE 0)]

RECURSIVE CountFieldsRecursive(_, _), CountElements(_, _), CountFrom(_, _, _)

\* indicators.py:510-514
CountElements(elements, v) ==
    IF elements = <<>> THEN KeyCount0
    ELSE AddCounts(CountFieldsRecursive(Head(elements), v), CountElements(Tail(elements), v))

\* indicators.py:496-522  the loop over fields.items(), from its i-th item on
CountFrom(dataset, fs, i) ==
    IF i > Len(fs) THEN KeyCount0
    ELSE AddCounts(
            IF fs[i].label = "nested"
            THEN CountElements(Elements(dataset, fs[i].key), fs[i].fields)
            ELSE LeafCount(dataset, fs[i].key, fs[i].label),
            CountFrom(dataset, fs, i + 1))

\* indicators.py:471-524
CountFieldsRecursive(dataset, fs) == CountFrom(dataset, fs, 1)

\* first call of _count_fields_recursive
CountFirst ==
    /\ cf_pc = "first"
    /\ cf_result' = CountFieldsRecursive(cf_dataset, cf_fields)
    /\ cf_pc' = "second"
    /\ UNCHANGED <<cf_fields, cf_dataset, cf_other, cf_other_result>>
    /\ UNCHANGED <<fedVars, indVars, dateVars, eqVars, recVars>>

\* second call, on any record, with the same schema
CountSecond ==
    /\ cf_pc = "second"
    /\ \E r \in Records :
          /\ cf_other' = r
          /\ cf_other_result' = CountFieldsRecursive(r, cf_fields)
    /\ cf_pc' = "done"
    /\ UNCHANGED <<cf_fields, cf_dataset, cf_result>>
    /\ UNCHANGED <<fedVars, indVars, dateVars, eqVars, recVars>>

IdleFederation ==
    /\ op = "idle" /\ pc = "idle"
    /\ filter_in = "None" /\ filter_out = "None" /\ only_time_series = FALSE
    /\ organization = "None" /\ has_license = FALSE
    /\ identifiers = <<>> /\ org_identifiers = <<>> /\ search_result = NoResult
    /\ start = 0 /\ pushed_package = "None" /\ returned = "None" /\ calls = <<>>

InitCount ==
    /\ cf_pc = "first"
    /\ cf_fields \in Schemas
    /\ cf_dataset \in Records
    /\ cf_result = <<>>
    /\ cf_other = <<>>
    /\ cf_other_result = <<>>
    /\ IdleFederation /\ IdleIndic /\ IdleDates /\ IdleEqual /\ IdleReconciler

NextCount == CountFirst \/ CountSecond

SpecCount == InitCount /\ [][NextCount]_vars

-----------------------------------------------------------------------------
(* Properties of _count_fields_recursive *)

Totals(kc) == <<kc.total_requerido, kc.total_recomendado, kc.total_optativo>>

\* the records a nested key stands for: the elements of a list; one record
\* for a mapping, an absent key or any other value
NestedRecords(d, k) ==
    LET hit == {i \in DOMAIN d : d[i].key = k} IN
    IF hit = {} THEN << <<>> >>
    ELSE LET v == d[CHOOSE i \in hit : TRUE] IN
         IF v.kind \in {"list", "dict"} THEN v.items ELSE << <<>> >>

\* two records have lists of the same lengths at the nested keys of the schema
RECURSIVE SameListLengths(_, _, _)
SameListLengths(d1, d2, fs) ==
    \A i \in DOMAIN fs :
        fs[i].label = "nested" =>
            LET e1 == NestedRecords(d1, fs[i].key)
                e2 == NestedRecords(d2, fs[i].key)
            IN /\ Len(e1) = Len(e2)
               /\ \A j \in DOMAIN e1 : SameListLengths(e1[j], e2[j], fs[i].fields)

\* C7 as stated: two records counted under one schema always give the same
\* total_requerido, total_recomendado and total_optativo.
C7_TotalsIgnoreRecord ==
    cf_pc = "done" => Totals(cf_result) = Totals(cf_other_result)

\* C7 amended: two records counted under one schema give the same totals
\* whenever their lists at the schema's nested keys have the same lengths
\* (a mapping, an absent key or a non-container value counting as a list of
\* one record), whatever leaf keys and values they hold.
C7_TotalsDependOnListLengths ==
    (cf_pc = "done" /\ SameListLengths(cf_dataset, cf_other, cf_fields))
        => Totals(cf_result) = Totals(cf_other_result)

\* C7 witness: two records with two datasets each, different fields in use,
\* equal non-zero totals
C7_Witness ==
    /\ cf_pc = "done"
    /\ SameListLengths(cf_dataset, cf_other, cf_fields)
    /\ Len(NestedRecords(cf_dataset, "dataset")) = 2
    /\ cf_result # cf_other_result
    /\ Totals(cf_result) = Totals(cf_other_result)
    /\ cf_result.total_requerido > 0

\* the leaves of the schema visited with the record each is looked up in
RECURSIVE Visits(_, _)
Visits(d, fs) ==
    IF fs = <<>> THEN <<>>
    ELSE LET f == Head(fs)
             rs == NestedRecords(d, f.key)
             RECURSIVE Inner(_)
             Inner(i) == IF i > Len(rs) THEN <<>> ELSE Visits(rs[i], f.fields) \o Inner(i + 1)
         IN (IF f.label = "nested"
             THEN Inner(1)
             ELSE << [present |-> \E i \in DOMAIN d : d[i].key = f.key, label |-> f.label] >>)
            \o Visits(d, Tail(fs))

CountOf(s, Test(_)) == Cardinality({i \in DOMAIN s : Test(s[i])})

\* C8: total_<label> is the number of schema leaves visited with that label,
\* <label> the number of those whose key is in the visited record (whatever
\* its value), so 0 <= <label> <= total_<label>.
C8_PresenceCounts ==
    cf_pc \in {"second", "done"} =>
        LET v == Visits(cf_dataset, cf_fields) IN
        \A l \in Labels :
            /\ cf_result[TotalKey(l)] = CountOf(v, LAMBDA x : x.label = l)
            /\ cf_result[l] = CountOf(v, LAMBDA x : x.label = l /\ x.present)
            /\ 0 <= cf_result[l]
            /\ cf_result[l] <= cf_result[TotalKey(l)]

\* C8 witness: a key holding None is counted, another leaf is visited and absent
C8_Witness ==
    /\ cf_pc = "second"
    /\ cf_dataset = <<Item("title", "none", <<>>), Item("dataset", "list", << <<>> >>)>>
    /\ cf_result.recomendado = 1
    /\ cf_result.total_recomendado = 2
    /\ cf_result.total_optativo = 1 /\ cf_result.optativo = 0

-----------------------------------------------------------------------------
(* indicators.py: generate_catalogs_indicators                              *)
(*                                                                          *)
(* A catalog is given by what its collaborators report of it: the number    *)
(* of datasets, how many the validation summary finds OK, how many          *)
(* _generate_date_indicators classifies as actualizado / desactualizado,    *)
(* how many _federation_indicators finds in the central catalog, and the    *)
(* record _count_fields_recursive is applied to.  A percentage is an        *)
(* integer number of hundredths (5000 is 50.00).                            *)

\* longest list of catalogs explored
MaxCatalogs == 2

\* numbers of datasets of a catalog
Sizes == {0, 10, 90}

CatalogRecord(n) ==
    IF n = 0
    THEN {<<Item("title", "str", <<>>), Item("dataset", "list", <<>>)>>}
    ELSE {<<Item("title", "str", <<>>), Item("rights", "none", <<>>),
            Item("dataset", "list", << <<Item("x", "str", <<>>), Item("y", "str", <<>>)>> >>)>>,
          <<Item("dataset", "list", << <<>>, <<Item("x", "none", <<>>)>> >>)>>}

CatalogSet ==
    UNION {
        [datasets : {n},
         meta_ok : {n \div 2, n},
         updated : {<<0, 0>>, <<n \div 2, n \div 5>>},
         federados : {0, n \div 2},
         record : CatalogRecord(n)] : n \in Sizes}

\* contents of fields.json
FieldSchemas ==
    { <<>>,
      <<Field("dataset", "nested",
              <<Field("x", "recomendado", <<>>), Field("y", "optativo", <<>>)>>)>>,
      <<Field("title", "recomendado", <<>>), Field("rights", "optativo", <<>>),
        Field("dataset", "nested",
              <<Field("x", "recomendado", <<>>), Field("y", "optativo", <<>>)>>)>> }

\* round(num / den) to the nearest integer, ties to even (round of Python 3), den > 0
RoundDiv(num, den) ==
    LET q == num \div den
        r == num % den
    IN IF 2 * r < den THEN q
       ELSE IF 2 * r > den THEN q + 1
       ELSE IF q % 2 = 0 THEN q ELSE q + 1

\* round(100 * float(num) / den, 2), in hundredths
Round2Pct(num, den) == RoundDiv(10000 * num, den)

\* helpers.add_dicts: field-by-field sum, a missing key counting as 0
AddDicts(one, other) ==
    [key \in DOMAIN one \cup DOMAIN other |->
        (IF key \in DOMAIN one THEN one[key] ELSE 0)
        + (IF key \in DOMAIN other THEN other[key] ELSE 0)]

\* indicators.py:257-280
GenerateStatusIndicators(catalog) ==
    [datasets_cant |-> catalog.datasets,
     datasets_meta_ok_cant |-> catalog.meta_ok,
     datasets_meta_error_cant |-> catalog.datasets - catalog.meta_ok,
     datasets_meta_ok_pct |-> IF catalog.datasets # 0
                              THEN Round2Pct(catalog.meta_ok, catalog.datasets)
                              ELSE 0]

\* indicators.py:351-360
GenerateDateIndicators(catalog) ==
    [datasets_desactualizados_cant |-> catalog.updated[2],
     datasets_actualizados_cant |-> catalog.updated[1],
     datasets_actualizados_pct |-> IF catalog.datasets # 0
                                   THEN 100 * RoundDiv(100 * catalog.updated[1], catalog.datasets)
                                   ELSE 0]

\* indicators.py:173-187
FederationIndicators(catalog) ==
    LET federados == catalog.federados
        no_federados == catalog.datasets - catalog.federados
    IN [datasets_federados_cant |-> federados,
        datasets_no_federados_cant |-> no_federados,
        datasets_federados_pct |-> IF federados # 0 \/ no_federados # 0
                                   THEN Round2Pct(federados, federados + no_federados)
                                   ELSE 0]

\* indicators.py:459-468
CountRequiredAndOptionalFields(catalog) ==
    CountFieldsRecursive(catalog.record, catalog_fields)

\* indicators.py:109-112  the divisions that are not guarded
FieldsDivisionFault(counts) ==
    counts.total_recomendado = 0 \/ counts.total_optativo = 0

\* indicators.py:109-116
FieldsPercentages(counts) ==
    [campos_recomendados_pct |-> Round2Pct(counts.recomendado, counts.total_recomendado),
     campos_optativos_pct |-> Round2Pct(counts.optativo, counts.total_optativo)]

\* dict.update
Update(d, new) == [key \in DOMAIN d \cup DOMAIN new |-> IF key \in DOMAIN new THEN new[key] ELSE d[key]]

\* indicators.py:22
CENTRAL_CATALOG == "http://datos.gob.ar/data.json"

\* indicators.py:46  central_catalog or CENTRAL_CATALOG
CentralCatalog(arg) == IF Truthy(arg) THEN arg ELSE CENTRAL_CATALOG

\* indicators.py:88-117 and 63-65  the record of one catalog
CatalogIndicators(catalog) ==
    LET result == Update(Update(GenerateStatusIndicators(catalog),
                                GenerateDateIndicators(catalog)),
                         FieldsPercentages(CountRequiredAndOptionalFields(catalog)))
    IN IF Truthy(CentralCatalog(central_catalog))
       THEN Update(result, FederationIndicators(catalog))
       ELSE result

\* mutant: the summed percentages are kept
NetworkIndicatorPercentages_KeepSums(fs, ni) == ni

\* indicators.py:209-244
NetworkIndicatorPercentages(fs, ni) ==
    LET meta_ok == ni.datasets_meta_ok_cant
        meta_error == ni.datasets_meta_error_cant
        act == ni.datasets_actualizados_cant
        desact == ni.datasets_desactualizados_cant
        federados == ni.datasets_federados_cant
        no_federados == ni.datasets_no_federados_cant
        withMeta == Update(ni, [datasets_meta_ok_pct |->
                        IF meta_ok # 0 \/ meta_error # 0
                        THEN Round2Pct(meta_ok, meta_error + meta_ok) ELSE 0])
        withFields == IF fs # <<>> THEN Update(withMeta, FieldsPercentages(fs)) ELSE withMeta
        withDates == Update(withFields, [datasets_actualizados_pct |->
                        IF act # 0 \/ desact # 0
                        THEN Round2Pct(act, act + desact) ELSE 0])
    IN IF federados # 0 \/ no_federados # 0
       THEN Update(withDates, [datasets_federados_pct |->
                        Round2Pct(federados, federados + no_federados)])
       ELSE withDates

\* indicators.py:77-80
RECURSIVE SumIndicatorsFrom(_, _, _)
SumIndicatorsFrom(total, list, i) ==
    IF i > Len(list) THEN total
    ELSE SumIndicatorsFrom(AddDicts(total, list[i]), list, i + 1)

\* indicators.py:58-69  one iteration of the loop over the catalogs
GenerateIndicators ==
    /\ gi_pc = "catalogs"
    /\ Len(indicators_list) < Len(catalogs)
    /\ LET catalog == catalogs[Len(indicators_list) + 1]
           fields_count == CountRequiredAndOptionalFields(catalog)
       IN IF FieldsDivisionFault(fields_count)
          THEN /\ gi_pc' = "ZeroDivisionError"
               /\ UNCHANGED <<indicators_list, fields>>
          ELSE /\ indicators_list' = Append(indicators_list, CatalogIndicators(catalog))
               /\ fields' = AddDicts(fields_count, fields)
               /\ gi_pc' = "catalogs"
    /\ UNCHANGED <<central_catalog, catalog_fields, catalogs, network_indicators>>
    /\ UNCHANGED <<fedVars, cntVars, dateVars, eqVars, recVars>>

\* indicators.py:71-81
SumIndicators ==
    /\ gi_pc = "catalogs"
    /\ Len(indicators_list) = Len(catalogs)
    /\ network_indicators' =
          Update([catalogos_cant |-> Len(catalogs)],
                 SumIndicatorsFrom(indicators_list[1], indicators_list, 2))
    /\ gi_pc' = "percentages"
    /\ UNCHANGED <<central_catalog, catalog_fields, catalogs, indicators_list, fields>>
    /\ UNCHANGED <<fedVars, cntVars, dateVars, eqVars, recVars>>

\* indicators.py:83-85
NetworkPercentages ==
    /\ gi_pc = "percentages"
    /\ IF fields # <<>> /\ FieldsDivisionFault(fields)
       THEN /\ gi_pc' = "ZeroDivisionError"
            /\ UNCHANGED network_indicators
       ELSE /\ network_indicators' = NetworkIndicatorPercentages(fields, network_indicators)
            /\ gi_pc' = "done"
    /\ UNCHANGED <<central_catalog, catalog_fields, catalogs, indicators_list, fields>>
    /\ UNCHANGED <<fedVars, cntVars, dateVars, eqVars, recVars>>

\* indicators.py:46-57
InitIndic ==
    /\ gi_pc = "catalogs"
    /\ central_catalog \in {"None", "central.json"}
    /\ catalog_fields \in FieldSchemas
    /\ catalogs \in UNION {[1..n -> CatalogSet] : n \in 1..MaxCatalogs}
    /\ indicators_list = <<>>
    /\ fields = <<>>
    /\ network_indicators = <<>>
    /\ IdleFederation /\ IdleCount /\ IdleDates /\ IdleEqual /\ IdleReconciler

NextIndic == GenerateIndicators \/ SumIndicators \/ NetworkPercentages

SpecIndic == InitIndic /\ [][NextIndic]_vars

-----------------------------------------------------------------------------
(* Properties of generate_catalogs_indicators *)

\* the percentage indicators with the counts each is the ratio of
PctOf(name, num, den) == [name |-> name, num |-> num, den |-> den]

RECURSIVE SumSeq(_)
SumSeq(s) == IF s = <<>> THEN 0 ELSE Head(s) + SumSeq(Tail(s))

\* sum over the catalogs of the count F
SumOver(s, F(_)) == SumSeq([i \in DOMAIN s |-> F(s[i])])

UsedFields(c) == CountFieldsRecursive(c.record, catalog_fields)

\* numerator and denominator of every percentage of one catalog
CatalogRatios(c) ==
    { PctOf("datasets_meta_ok_pct", c.meta_ok, c.datasets),
      PctOf("datasets_federados_pct", c.federados, c.datasets),
      PctOf("campos_recomendados_pct", UsedFields(c).recomendado, UsedFields(c).total_recomendado),
      PctOf("campos_optativos_pct", UsedFields(c).optativo, UsedFields(c).total_optativo) }

\* summed numerator and denominator of every percentage of the network
NetworkRatios ==
    { PctOf("datasets_meta_ok_pct",
            SumOver(catalogs, LAMBDA c : c.meta_ok), SumOver(catalogs, LAMBDA c : c.datasets)),
      PctOf("datasets_actualizados_pct",
            SumOver(catalogs, LAMBDA c : c.updated[1]),
            SumOver(catalogs, LAMBDA c : c.updated[1] + c.updated[2])),
      PctOf("datasets_federados_pct",
            SumOver(catalogs, LAMBDA c : c.federados), SumOver(catalogs, LAMBDA c : c.datasets)),
      PctOf("campos_recomendados_pct",
            SumOver(catalogs, LAMBDA c : UsedFields(c).recomendado),
            SumOver(catalogs, LAMBDA c : UsedFields(c).total_recomendado)),
      PctOf("campos_optativos_pct",
            SumOver(catalogs, LAMBDA c : UsedFields(c).optativo),
            SumOver(catalogs, LAMBDA c : UsedFields(c).total_optativo)) }

\* C9: no percentage computation ends in a division fault, and a percentage
\* whose denominator is 0 is 0, per catalog and for the network.
C9_ZeroDenominatorGivesZero ==
    /\ gi_pc # "ZeroDivisionError"
    /\ \A i \in DOMAIN indicators_list :
          \A p \in CatalogRatios(catalogs[i]) :
              p.den = 0 => indicators_list[i][p.name] = 0
    /\ gi_pc = "done" =>
          \A p \in NetworkRatios : p.den = 0 => network_indicators[p.name] = 0

\* |x|
Abs(x) == IF x < 0 THEN -x ELSE x

\* C10: every percentage of the network-wide record is 100 x (sum of the
\* numerator counts) / (sum of the denominator counts) to 2 decimals (a
\* hundredth nearest to the quotient), and 0 when the summed denominator is 0.
C10_NetworkPercentagesRecomputed ==
    gi_pc = "done" =>
        \A p \in NetworkRatios :
            IF p.den = 0
            THEN network_indicators[p.name] = 0
            ELSE 2 * Abs(10000 * p.num - network_indicators[p.name] * p.den) <= p.den

\* C10 witness: catalogs of 10 and 90 datasets, both with 50% of the metadata
\* OK and 5 and 0 federated datasets: the network has 50% OK (not 100) and 5%
\* federated (neither the sum 50 nor the average 25)
C10_Witness ==
    /\ gi_pc = "done"
    /\ Len(catalogs) = 2
    /\ catalogs[1].datasets = 10 /\ catalogs[2].datasets = 90
    /\ indicators_list[1].datasets_meta_ok_pct = 5000
    /\ indicators_list[2].datasets_meta_ok_pct = 5000
    /\ network_indicators.datasets_meta_ok_pct = 5000
    /\ indicators_list[1].datasets_federados_pct = 5000
    /\ indicators_list[2].datasets_federados_pct = 0
    /\ network_indicators.datasets_federados_pct = 500

\* the keys _federation_indicators adds to the record of a catalog
FederationKeys ==
    {"datasets_federados_cant", "datasets_no_federados_cant", "datasets_federados_pct"}

\* C11: when central_catalog is not passed, the record of no catalog holds a
\* federation indicator (the Federation Reconciler was not run for it).
C11_FederationOnlyIfCentral ==
    central_catalog = "None" =>
        \A i \in DOMAIN indicators_list :
            DOMAIN indicators_list[i] \cap FederationKeys = {}

-----------------------------------------------------------------------------
(* indicators.py: _generate_date_indicators and _days_from_last_update      *)
(*                                                                          *)
(* A date field of a catalog or a dataset is absent, a string that is not   *)
(* a date ("bad"), or a string holding a date, given by the number of days  *)
(* between that date and now.  A periodicity is "None" when the key is      *)
(* absent.                                                                  *)

\* longest list of datasets explored
MaxDatasets == 2

\* tolerance=0.2 of _generate_date_indicators, in hundredths
Tolerance == 20

DateField(kind, days) == [kind |-> kind, days |-> days]

AbsentDate == DateField("absent", 0)

BadDate == DateField("bad", 0)

DateAgo(days) == DateField("date", days)

Dataset(periodicity, modified, issued) ==
    [accrualPeriodicity |-> periodicity, modified |-> modified, issued |-> issued]

\* the datasets explored
DateDatasets ==
    {Dataset(p, m, AbsentDate) :
        p \in {"None", "eventual", "R/P1M"},
        m \in {AbsentDate, DateAgo(0), DateAgo(35), DateAgo(36), DateAgo(40)}}
    \cup {Dataset("R/P1W", m, AbsentDate) : m \in {DateAgo(8), DateAgo(9)}}
    \cup {Dataset(p, BadDate, AbsentDate) : p \in {"None", "R/P1M"}}
    \cup {Dataset("None", AbsentDate, i) : i \in {DateAgo(3), BadDate}}

\* the catalogs explored; without a 'dataset' key the list is empty
DateCatalogs ==
    [modified : {AbsentDate, BadDate, DateAgo(0), DateAgo(40)},
     issued : {AbsentDate, DateAgo(5)},
     has_dataset : {TRUE},
     dataset : UNION {[1..n -> DateDatasets] : n \in 0..MaxDatasets}]
    \cup [modified : {AbsentDate, DateAgo(40)}, issued : {AbsentDate, DateAgo(5)},
          has_dataset : {FALSE}, dataset : {<<>>}]

\* catalog.get('dataset', [])
CatalogDatasets(catalog) == IF catalog.has_dataset THEN catalog.dataset ELSE <<>>

\* helpers.parse_date_string: the date of a date string, None for an empty
\* or unparseable one; a date is kept as its distance in days from now
ParseDateString(value) == IF value.kind = "date" THEN Just(value.days) ELSE Nothing

\* helpers.parse_repeating_time_interval: days of an ISO 8601 repeating interval
ParseRepeatingTimeInterval(periodicity) ==
    CASE periodicity = "R/P1M" -> 30
      [] periodicity = "R/P1W" -> 7
      [] OTHER -> 0

\* truth value of None or a number of days
TruthyDays(d) == d # Nothing /\ d[1] # 0

\* indicators.py:430-437  the loop over the datasets, from dataset i on
RECURSIVE LastUpdateFrom(_, _, _, _)
LastUpdateFrom(dias, datasets, date_field, i) ==
    IF i > Len(datasets) THEN dias
    ELSE LET date == ParseDateString(IF datasets[i][date_field].kind = "absent"
                                     THEN DateField("empty", 0)
                                     ELSE datasets[i][date_field])
             days_diff == IF date # Nothing THEN date ELSE Nothing
             replace == \/ ~TruthyDays(dias)
                        \/ (TruthyDays(days_diff) /\ days_diff[1] < dias[1])
         IN LastUpdateFrom(IF replace THEN days_diff ELSE dias, datasets, date_field, i + 1)

\* indicators.py:422-442  _days_from_last_update; datetime.now() - None raises
DaysFromLastUpdate(catalog, date_field) ==
    LET date_modified == catalog[date_field]
        isString == date_modified.kind # "absent"
        date == ParseDateString(date_modified)
    IN IF isString /\ date = Nothing
       THEN [raised |-> TRUE, value |-> Nothing]
       ELSE LET dias == LastUpdateFrom(IF isString THEN date ELSE Nothing,
                                       CatalogDatasets(catalog), date_field, 1)
            IN [raised |-> FALSE,
                value |-> IF TruthyDays(dias) THEN dias ELSE Nothing]

\* mutant: no dataset is skipped
SkipsDataset_Never(periodicity) == FALSE

\* indicators.py:320-322  if not periodicity: continue
SkipsDataset(periodicity) == ~Truthy(periodicity)

\* mutant: a dataset exactly at the threshold is still up to date
IsUpdated_Inclusive(days_diff, periodicity) ==
    100 * days_diff <= ParseRepeatingTimeInterval(periodicity) * (100 + Tolerance)

\* indicators.py:338-343  days_diff < interval, interval = days * (1 + tolerance)
IsUpdated(days_diff, periodicity) ==
    100 * days_diff < ParseRepeatingTimeInterval(periodicity) * (100 + Tolerance)

\* indicators.py:326-327, 348-349
CountPeriodicity(amount, periodicity) ==
    [p \in DOMAIN amount \cup {periodicity} |->
        (IF p \in DOMAIN amount THEN amount[p] ELSE 0) + (IF p = periodicity THEN 1 ELSE 0)]

\* indicators.py:305-307  _days_from_last_update(catalog, "modified")
DaysFromModified ==
    /\ di_pc = "modified"
    /\ LET r == DaysFromLastUpdate(di_catalog, "modified")
       IN IF r.raised
          THEN /\ di_pc' = "TypeError"
               /\ UNCHANGED dias_ultima_actualizacion
          ELSE /\ dias_ultima_actualizacion' = r.value
               /\ di_pc' = IF ~TruthyDays(r.value) THEN "issued" ELSE "datasets"
    /\ UNCHANGED <<di_catalog, di_index, actualizados, desactualizados,
                   periodicity_amount, di_result>>
    /\ UNCHANGED <<fedVars, cntVars, indVars, eqVars, recVars>>

\* indicators.py:308-309  _days_from_last_update(catalog, "issued")
DaysFromIssued ==
    /\ di_pc = "issued"
    /\ LET r == DaysFromLastUpdate(di_catalog, "issued")
       IN IF r.raised
          THEN /\ di_pc' = "TypeError"
               /\ UNCHANGED dias_ultima_actualizacion
          ELSE /\ dias_ultima_actualizacion' = r.value
               /\ di_pc' = "datasets"
    /\ UNCHANGED <<di_catalog, di_index, actualizados, desactualizados,
                   periodicity_amount, di_result>>
    /\ UNCHANGED <<fedVars, cntVars, indVars, eqVars, recVars>>

\* indicators.py:318-349  one iteration of the loop over the datasets
ClassifyDataset ==
    /\ di_pc = "datasets"
    /\ di_index < Len(CatalogDatasets(di_catalog))
    /\ LET dataset == CatalogDatasets(di_catalog)[di_index + 1]
           periodicity == dataset.accrualPeriodicity
           date == ParseDateString(dataset.modified)
       IN IF SkipsDataset(periodicity)
          THEN /\ di_index' = di_index + 1
               /\ UNCHANGED <<di_pc, actualizados, desactualizados, periodicity_amount>>
          ELSE IF periodicity = "eventual"
          THEN /\ actualizados' = actualizados + 1
               /\ periodicity_amount' = CountPeriodicity(periodicity_amount, periodicity)
               /\ di_index' = di_index + 1
               /\ UNCHANGED <<di_pc, desactualizados>>
          ELSE IF dataset.modified.kind = "absent"
          THEN /\ desactualizados' = desactualizados + 1
               /\ periodicity_amount' = CountPeriodicity(periodicity_amount, periodicity)
               /\ di_index' = di_index + 1
               /\ UNCHANGED <<di_pc, actualizados>>
          ELSE IF date = Nothing
          THEN /\ di_pc' = "TypeError"
               /\ UNCHANGED <<di_index, actualizados, desactualizados, periodicity_amount>>
          ELSE /\ IF IsUpdated(date[1], periodicity)
                  THEN actualizados' = actualizados + 1 /\ UNCHANGED desactualizados
                  ELSE desactualizados' = desactualizados + 1 /\ UNCHANGED actualizados
               /\ periodicity_amount' = CountPeriodicity(periodicity_amount, periodicity)
               /\ di_index' = di_index + 1
               /\ UNCHANGED di_pc
    /\ UNCHANGED <<di_catalog, dias_ultima_actualizacion, di_result>>
    /\ UNCHANGED <<fedVars, cntVars, indVars, eqVars, recVars>>

\* indicators.py:311-312, 351-361  the dict returned
DateIndicators ==
    /\ di_pc = "datasets"
    /\ di_index = Len(CatalogDatasets(di_catalog))
    /\ di_result' =
          Update([catalogo_ultima_actualizacion_dias |-> dias_ultima_actualizacion,
                  datasets_frecuencia_cant |-> periodicity_amount],
                 GenerateDateIndicators(
                     [datasets |-> Len(CatalogDatasets(di_catalog)),
                      updated |-> <<actualizados, desactualizados>>]))
    /\ di_pc' = "done"
    /\ UNCHANGED <<di_catalog, dias_ultima_actualizacion, di_index, actualizados,
                   desactualizados, periodicity_amount>>
    /\ UNCHANGED <<fedVars, cntVars, indVars, eqVars, recVars>>

\* indicators.py:303, 314-316
InitDates ==
    /\ di_pc = "modified"
    /\ di_catalog \in DateCatalogs
    /\ dias_ultima_actualizacion = Nothing
    /\ di_index = 0
    /\ actualizados = 0
    /\ desactualizados = 0
    /\ periodicity_amount = <<>>
    /\ di_result = <<>>
    /\ IdleFederation /\ IdleCount /\ IdleIndic /\ IdleEqual /\ IdleReconciler

NextDates == DaysFromModified \/ DaysFromIssued \/ ClassifyDataset \/ DateIndicators

SpecDates == InitDates /\ [][NextDates]_vars

-----------------------------------------------------------------------------
(* Properties of _generate_date_indicators *)

DateDone == di_pc = "done"

\* the datasets of the catalog that satisfy Test
DatasetsWith(Test(_)) ==
    {i \in DOMAIN CatalogDatasets(di_catalog) : Test(CatalogDatasets(di_catalog)[i])}

HasPeriodicity(d) == d.accrualPeriodicity \notin {"None", ""}

\* days the periodicity allows between updates
IntervalDays(d) ==
    IF d.accrualPeriodicity = "R/P1M" THEN 30
    ELSE IF d.accrualPeriodicity = "R/P1W" THEN 7 ELSE 0

\* the classification of one dataset as the claim states it, tolerance 0.2
ClassifiedUpdated(d) ==
    /\ HasPeriodicity(d)
    /\ \/ d.accrualPeriodicity = "eventual"
       \/ (d.modified.kind = "date" /\ 10 * d.modified.days < IntervalDays(d) * 12)

ClassifiedOutdated(d) == HasPeriodicity(d) /\ ~ClassifiedUpdated(d)

\* C12: a dataset without accrualPeriodicity is in neither tally; 'eventual'
\* is actualizado with or without a modified date; another dataset without a
\* modified date is desactualizado; otherwise it is actualizado exactly when
\* days since modified < interval days x (1 + tolerance), else desactualizado.
C12_FreshnessClassification ==
    DateDone =>
        /\ di_result.datasets_actualizados_cant = Cardinality(DatasetsWith(ClassifiedUpdated))
        /\ di_result.datasets_desactualizados_cant = Cardinality(DatasetsWith(ClassifiedOutdated))

\* C12 witness: R/P1M modified 40 days ago is desactualizado, next to an
\* 'eventual' dataset without a modified date that is actualizado
C12_Witness ==
    /\ DateDone
    /\ CatalogDatasets(di_catalog) =
          <<Dataset("R/P1M", DateAgo(40), AbsentDate), Dataset("eventual", AbsentDate, AbsentDate)>>
    /\ di_result.datasets_actualizados_cant = 1
    /\ di_result.datasets_desactualizados_cant = 1

\* C13: datasets_actualizados_pct is 100 x datasets_actualizados_cant over the
\* number of datasets with an accrualPeriodicity (to the nearest hundredth),
\* and 0 when no dataset has one.
C13_PctOverDatasetsWithPeriodicity ==
    DateDone =>
        LET n == Cardinality(DatasetsWith(HasPeriodicity))
            pct == di_result.datasets_actualizados_pct
        IN IF n = 0 THEN pct = 0
           ELSE 2 * Abs(10000 * di_result.datasets_actualizados_cant - pct * n) <= n

\* C14: when no dataset has an accrualPeriodicity (no dataset list included)
\* the percentage and both tallies are 0 and the frequency histogram is empty.
C14_NoPeriodicityAllZero ==
    (DateDone /\ DatasetsWith(HasPeriodicity) = {}) =>
        /\ di_result.datasets_actualizados_pct = 0
        /\ di_result.datasets_actualizados_cant = 0
        /\ di_result.datasets_desactualizados_cant = 0
        /\ DOMAIN di_result.datasets_frecuencia_cant = {}

\* C14 witness: two datasets, none with a periodicity, one of them modified today
C14_Witness ==
    /\ DateDone
    /\ Len(CatalogDatasets(di_catalog)) = 2
    /\ DatasetsWith(HasPeriodicity) = {}
    /\ \E i \in DOMAIN di_catalog.dataset : di_catalog.dataset[i].modified = DateAgo(0)
    /\ di_result.datasets_actualizados_pct = 0

\* C15: an unparseable date string never makes the evaluation fail.
C15_BadDateNotFatal == di_pc # "TypeError"

\* the dates of the catalog and of its datasets held in date_field
ResolvableDays(date_field) ==
    {di_catalog[f].days : f \in {x \in {date_field} : di_catalog[x].kind = "date"}}
    \cup {CatalogDatasets(di_catalog)[i][date_field].days :
            i \in {j \in DOMAIN CatalogDatasets(di_catalog) :
                      CatalogDatasets(di_catalog)[j][date_field].kind = "date"}}

Minimum(S) == CHOOSE x \in S : \A y \in S : x <= y

\* C16: catalogo_ultima_actualizacion_dias is the least number of days since
\* a date of the catalog or of a dataset, taken from 'modified', from 'issued'
\* only when no 'modified' date is resolvable; None only when no date is
\* resolvable; a date of today yields 0.
C16_DaysSinceLastUpdate ==
    DateDone =>
        di_result.catalogo_ultima_actualizacion_dias =
            IF ResolvableDays("modified") # {} THEN Just(Minimum(ResolvableDays("modified")))
            ELSE IF ResolvableDays("issued") # {} THEN Just(Minimum(ResolvableDays("issued")))
            ELSE Nothing

-----------------------------------------------------------------------------
(* indicators.py: datasets_equal                                            *)
(*                                                                          *)
(* A JSON value is [t, s, m]: t its type ("none", "str", "dict", "list"),   *)
(* s the text of a string, m the items of a dict (a function of its keys)   *)
(* or the elements of a list.  A field to compare is a key, or a path of    *)
(* keys and list indexes for a nested field.                                *)

\* longest list of distributions explored
MaxDistributions == 2

NoneValue == [t |-> "none", s |-> "", m |-> <<>>]

Str(s) == [t |-> "str", s |-> s, m |-> <<>>]

Dict(m) == [t |-> "dict", s |-> "", m |-> m]

List(l) == [t |-> "list", s |-> "", m |-> l]

\* a key of a dict; an index of a list (from 0)
Key(k) == [isIndex |-> FALSE, key |-> k, index |-> 0]

Index(n) == [isIndex |-> TRUE, key |-> "", index |-> n]

\* 'title': a plain field;  ['publisher', 'name']: a nested one
PlainField(k) == [isList |-> FALSE, keys |-> <<Key(k)>>]

NestedField(keys) == [isList |-> TRUE, keys |-> keys]

\* d.get(key) of a dict d
DictGet(d, key) == IF key \in DOMAIN d.m THEN d.m[key] ELSE NoneValue

\* helpers.traverse_dict: the value at the end of the path, default_value when
\* a key is missing, an index is out of range or a key is used on a list
RECURSIVE TraverseDict(_, _, _)
TraverseDict(dicc, keys, default_value) ==
    IF keys = <<>> THEN dicc
    ELSE LET key == Head(keys)
         IN IF dicc.t = "dict" /\ ~key.isIndex /\ key.key \in DOMAIN dicc.m
            THEN TraverseDict(dicc.m[key.key], Tail(keys), default_value)
            ELSE IF dicc.t = "list" /\ key.isIndex /\ key.index < Len(dicc.m)
            THEN TraverseDict(dicc.m[key.index + 1], Tail(keys), default_value)
            ELSE default_value

\* indicators.py:544-548
DefaultFieldsDataset == <<PlainField("title"), NestedField(<<Key("publisher"), Key("name")>>)>>

\* indicators.py:551-556, 580-587  the value of a field in a dataset or distribution
FieldValue(record, field) ==
    IF field.isList
    THEN TraverseDict(record, field.keys, NoneValue)
    ELSE DictGet(record, field.keys[1].key)

\* mutant: a value missing in `other` never counts as a difference
ValuesDiffer_IgnoreMissing(value, other_value) ==
    other_value # NoneValue /\ value # other_value

\* indicators.py:558, 589  value != other_value
ValuesDiffer(value, other_value) == value # other_value

\* indicators.py:550-564, 579-598  the fields on which two records differ
DifferingFields(record, other, compared) ==
    {i \in DOMAIN compared :
        ValuesDiffer(FieldValue(record, compared[i]), FieldValue(other, compared[i]))}

Min(a, b) == IF a < b THEN a ELSE b

\* indicators.py:567-568  dataset.get("distribution")
Distributions(dataset) == DictGet(dataset, "distribution")

\* indicators.py:527-606  datasets_equal with return_diff=False: "True",
\* "False", or "TypeError" when len() is applied to None
DatasetsEqual(dataset, other, fields_dataset, fields_distribution) ==
    LET compared == IF fields_dataset = <<>> THEN DefaultFieldsDataset ELSE fields_dataset
        fields_equal == DifferingFields(dataset, other, compared) = {}
        dataset_distributions == Distributions(dataset)
        other_distributions == Distributions(other)
    IN IF fields_distribution = <<>>
       THEN IF fields_equal THEN "True" ELSE "False"
       ELSE IF dataset_distributions.t # "list" \/ other_distributions.t # "list"
       THEN "TypeError"
       ELSE LET same_length == Len(dataset_distributions.m) = Len(other_distributions.m)
                zipped == 1..Min(Len(dataset_distributions.m), Len(other_distributions.m))
                distributions_equal ==
                    \A i \in zipped :
                        DifferingFields(dataset_distributions.m[i],
                                        other_distributions.m[i],
                                        fields_distribution) = {}
            IN IF fields_equal /\ same_length /\ distributions_equal
               THEN "True" ELSE "False"

\* indicators.py:559-563, 590-597  an entry of dataset_diff; error_location is
\* the field, with the title of the distribution for a distribution field
DiffEntry(field, title, value, other_value) ==
    [error_location |-> [field |-> field, title |-> title],
     dataset_value |-> value, other_value |-> other_value]

\* indicators.py:550-564, 579-598  the entries appended for one pair of records
DiffOfFields(record, other, compared, title) ==
    SelectSeq([i \in DOMAIN compared |->
                  DiffEntry(compared[i], title,
                            FieldValue(record, compared[i]), FieldValue(other, compared[i]))],
              LAMBDA e : ValuesDiffer(e.dataset_value, e.other_value))

\* indicators.py:576-598  the entries appended for the zipped distributions, from pair i on
RECURSIVE DiffOfDistributions(_, _, _, _)
DiffOfDistributions(dataset_distributions, other_distributions, fields_distribution, i) ==
    IF i > Min(Len(dataset_distributions), Len(other_distributions)) THEN <<>>
    ELSE DiffOfFields(dataset_distributions[i], other_distributions[i], fields_distribution,
                      DictGet(dataset_distributions[i], "title"))
         \o DiffOfDistributions(dataset_distributions, other_distributions,
                                fields_distribution, i + 1)

\* indicators.py:527-606  datasets_equal with return_diff=True: dataset_diff,
\* or raised when len() is applied to None
DatasetDiff(dataset, other, fields_dataset, fields_distribution) ==
    LET compared == IF fields_dataset = <<>> THEN DefaultFieldsDataset ELSE fields_dataset
        dataset_diff == DiffOfFields(dataset, other, compared, NoneValue)
        dataset_distributions == Distributions(dataset)
        other_distributions == Distributions(other)
    IN IF fields_distribution = <<>>
       THEN [raised |-> FALSE, diff |-> dataset_diff]
       ELSE IF dataset_distributions.t # "list" \/ other_distributions.t # "list"
       THEN [raised |-> TRUE, diff |-> <<>>]
       ELSE [raised |-> FALSE,
             diff |-> dataset_diff
                      \o DiffOfDistributions(dataset_distributions.m, other_distributions.m,
                                             fields_distribution, 1)]

\* the distribution lists explored
DistributionLists ==
    UNION {[1..n -> {Dict(<<>>), Dict([title |-> Str("d1")])}] : n \in 0..MaxDistributions}

\* the datasets explored: every key may be missing, and so may publisher.name
EqualDatasets ==
    {Dict(t @@ p @@ d) :
        t \in {<<>>, [title |-> Str("t1")]},
        p \in {<<>>, [publisher |-> Dict(<<>>)], [publisher |-> Dict([name |-> Str("p1")])],
               [publisher |-> Dict([name |-> Str("p2")])]},
        d \in {<<>>} \cup {[distribution |-> List(l)] : l \in DistributionLists}}

\* the values of fields_dataset explored; <<>> is None (the default fields)
FieldsDatasetArgs ==
    { <<>>,
      <<PlainField("identifier")>>,
      <<NestedField(<<Key("distribution"), Index(1), Key("title")>>)>>,
      <<NestedField(<<Key("distribution"), Key("0"), Key("title")>>), PlainField("title")>> }

\* the values of fields_distribution explored; <<>> is None
FieldsDistributionArgs == { <<>>, <<PlainField("title")>> }

\* datasets_equal(dataset, other, fields_dataset, fields_distribution)
CompareDatasets ==
    /\ eq_pc = "forward"
    /\ eq_result' = DatasetsEqual(eq_dataset, eq_other, eq_fields_dataset, eq_fields_distribution)
    /\ eq_pc' = "backward"
    /\ UNCHANGED <<eq_dataset, eq_other, eq_fields_dataset, eq_fields_distribution,
                   eq_swapped, eq_diff>>
    /\ UNCHANGED <<fedVars, cntVars, indVars, dateVars, recVars>>

\* datasets_equal(other, dataset, fields_dataset, fields_distribution)
CompareSwapped ==
    /\ eq_pc = "backward"
    /\ eq_swapped' = DatasetsEqual(eq_other, eq_dataset, eq_fields_dataset, eq_fields_distribution)
    /\ eq_pc' = "diff"
    /\ UNCHANGED <<eq_dataset, eq_other, eq_fields_dataset, eq_fields_distribution,
                   eq_result, eq_diff>>
    /\ UNCHANGED <<fedVars, cntVars, indVars, dateVars, recVars>>

\* datasets_equal(dataset, other, fields_dataset, fields_distribution, return_diff=True)
DiffDatasets ==
    /\ eq_pc = "diff"
    /\ eq_diff' = DatasetDiff(eq_dataset, eq_other, eq_fields_dataset, eq_fields_distribution)
    /\ eq_pc' = "done"
    /\ UNCHANGED <<eq_dataset, eq_other, eq_fields_dataset, eq_fields_distribution,
                   eq_result, eq_swapped>>
    /\ UNCHANGED <<fedVars, cntVars, indVars, dateVars, recVars>>

InitEqual ==
    /\ eq_pc = "forward"
    /\ eq_dataset \in EqualDatasets
    /\ eq_other \in EqualDatasets
    /\ eq_fields_dataset \in FieldsDatasetArgs
    /\ eq_fields_distribution \in FieldsDistributionArgs
    /\ eq_result = "None"
    /\ eq_swapped = "None"
    /\ eq_diff = [raised |-> FALSE, diff |-> <<>>]
    /\ IdleFederation /\ IdleCount /\ IdleIndic /\ IdleDates /\ IdleReconciler

NextEqual == CompareDatasets \/ CompareSwapped \/ DiffDatasets

SpecEqual == InitEqual /\ [][NextEqual]_vars

-----------------------------------------------------------------------------
(* Properties of datasets_equal *)

\* C17: datasets_equal(a, b) and datasets_equal(b, a), called with the same
\* fields_dataset and fields_distribution, give the same outcome.
C17_Symmetric == eq_pc = "done" => eq_result = eq_swapped

\* C17 witness: both orders return False for datasets that differ only in a
\* key one of them lacks
C17_Witness ==
    /\ eq_pc = "done"
    /\ eq_result = "False" /\ eq_swapped = "False"
    /\ eq_fields_dataset = <<>> /\ eq_fields_distribution = <<>>
    /\ "title" \in DOMAIN eq_dataset.m /\ "title" \notin DOMAIN eq_other.m
    /\ DictGet(eq_dataset, "publisher") = DictGet(eq_other, "publisher")

\* C18: datasets_equal never raises because of an absent key, the
\* distribution list included, with and without fields_distribution.
C18_AbsentKeyNeverRaises ==
    /\ eq_result \in {"None", "True", "False"}
    /\ eq_swapped \in {"None", "True", "False"}

-----------------------------------------------------------------------------
(* indicators.py: _federation_indicators and _filter_by_likely_publisher    *)

\* the datasets of the local and the central catalog explored
ReconcilerDatasets ==
    {Dict([title |-> Str("t1")] @@ p) :
        p \in {<<>>, [publisher |-> Dict(<<>>)], [publisher |-> Dict([name |-> Str("p1")])],
               [publisher |-> Dict([name |-> Str("p2")])]}}
    \cup {Dict([title |-> Str("t2"), landingPage |-> Str("url"),
                publisher |-> Dict([name |-> Str(n)])]) : n \in {"p1", "p2"}}

ReconcilerLists == UNION {[1..n -> ReconcilerDatasets] : n \in 0..MaxDatasets}

\* catalogs holding a list of datasets
ReconcilerCatalogs == {Dict([dataset |-> List(l)]) : l \in ReconcilerLists}

\* catalog.get('dataset', [])
DatasetsOf(catalog) ==
    IF "dataset" \in DOMAIN catalog.m THEN catalog.m["dataset"].m ELSE <<>>

\* indicators.py:145-146  (dataset.get('title'), dataset.get('landingPage'))
TitleAndLandingPage(dataset) == <<DictGet(dataset, "title"), DictGet(dataset, "landingPage")>>

\* mutant: only the first dataset of the other catalog is compared
FoundIn_FirstOnly(dataset, others, swapped) ==
    /\ others # <<>>
    /\ DatasetsEqual(dataset, others[1], <<>>, <<>>) = "True"

\* indicators.py:140-147, 161-165  the scan for a dataset equal to `dataset`;
\* the second pass passes the local dataset first too
FoundIn(dataset, others, swapped) ==
    \E i \in DOMAIN others :
        IF swapped
        THEN DatasetsEqual(others[i], dataset, <<>>, <<>>) = "True"
        ELSE DatasetsEqual(dataset, others[i], <<>>, <<>>) = "True"

\* mutant: the scan goes on after a match and counts every match
FederadosFound_NoBreak(dataset, central_datasets) ==
    Cardinality({i \in DOMAIN central_datasets :
                    DatasetsEqual(dataset, central_datasets[i], <<>>, <<>>) = "True"})

\* indicators.py:141-147  what one local dataset adds to federados: the scan
\* of the central catalog breaks at the first match
FederadosFound(dataset, central_datasets) ==
    IF FoundIn(dataset, central_datasets, FALSE) THEN 1 ELSE 0

\* dataset["publisher"] raises KeyError
LacksPublisher(dataset) == "publisher" \notin DOMAIN dataset.m

\* indicators.py:610-614
PublisherNames(catalog_datasets) ==
    {catalog_datasets[i].m["publisher"].m["name"] :
        i \in {j \in DOMAIN catalog_datasets :
                  "name" \in DOMAIN catalog_datasets[j].m["publisher"].m}}

\* mutant: every dataset of the central catalog is a candidate
FilterByLikelyPublisher_All(central_datasets, catalog_datasets) ==
    [raised |-> FALSE, value |-> central_datasets]

\* indicators.py:609-622  _filter_by_likely_publisher
FilterByLikelyPublisher(central_datasets, catalog_datasets) ==
    IF \/ \E i \in DOMAIN catalog_datasets : LacksPublisher(catalog_datasets[i])
       \/ \E i \in DOMAIN central_datasets : LacksPublisher(central_datasets[i])
    THEN [raised |-> TRUE, value |-> <<>>]
    ELSE [raised |-> FALSE,
          value |-> SelectSeq(central_datasets, LAMBDA c :
                        /\ "name" \in DOMAIN c.m["publisher"].m
                        /\ c.m["publisher"].m["name"] \in PublisherNames(catalog_datasets))]

\* indicators.py:139-151  one iteration of the first loop
MatchLocalDataset ==
    /\ fi_pc = "local"
    /\ fi_index < Len(DatasetsOf(fi_catalog))
    /\ LET dataset == DatasetsOf(fi_catalog)[fi_index + 1]
       IN IF FoundIn(dataset, DatasetsOf(fi_central_catalog), FALSE)
          THEN /\ fi_federados' =
                     fi_federados + FederadosFound(dataset, DatasetsOf(fi_central_catalog))
               /\ datasets_federados' = Append(datasets_federados, TitleAndLandingPage(dataset))
               /\ UNCHANGED <<fi_no_federados, datasets_no_federados>>
          ELSE /\ fi_no_federados' = fi_no_federados + 1
               /\ datasets_no_federados' = Append(datasets_no_federados, TitleAndLandingPage(dataset))
               /\ UNCHANGED <<fi_federados, datasets_federados>>
    /\ fi_index' = fi_index + 1
    /\ UNCHANGED <<fi_pc, fi_catalog, fi_central_catalog, datasets_federados_eliminados_cant,
                   datasets_federados_eliminados, filtered_central, fi_result>>
    /\ UNCHANGED <<fedVars, cntVars, indVars, dateVars, eqVars>>

\* indicators.py:156-159
FilterCentral ==
    /\ fi_pc = "local"
    /\ fi_index = Len(DatasetsOf(fi_catalog))
    /\ LET r == FilterByLikelyPublisher(DatasetsOf(fi_central_catalog), DatasetsOf(fi_catalog))
       IN IF r.raised
          THEN fi_pc' = "KeyError" /\ UNCHANGED <<filtered_central, fi_index>>
          ELSE fi_pc' = "central" /\ filtered_central' = r.value /\ fi_index' = 0
    /\ UNCHANGED <<fi_catalog, fi_central_catalog, fi_federados, fi_no_federados,
                   datasets_federados_eliminados_cant, datasets_federados,
                   datasets_no_federados, datasets_federados_eliminados, fi_result>>
    /\ UNCHANGED <<fedVars, cntVars, indVars, dateVars, eqVars>>

\* indicators.py:160-171  one iteration of the second loop
MatchCentralDataset ==
    /\ fi_pc = "central"
    /\ fi_index < Len(filtered_central)
    /\ LET central_dataset == filtered_central[fi_index + 1]
       IN IF FoundIn(central_dataset, DatasetsOf(fi_catalog), TRUE)
          THEN UNCHANGED <<datasets_federados_eliminados_cant, datasets_federados_eliminados>>
          ELSE /\ datasets_federados_eliminados_cant' = datasets_federados_eliminados_cant + 1
               /\ datasets_federados_eliminados' =
                     Append(datasets_federados_eliminados, TitleAndLandingPage(central_dataset))
    /\ fi_index' = fi_index + 1
    /\ UNCHANGED <<fi_pc, fi_catalog, fi_central_catalog, fi_federados, fi_no_federados,
                   datasets_federados, datasets_no_federados, filtered_central, fi_result>>
    /\ UNCHANGED <<fedVars, cntVars, indVars, dateVars, eqVars>>

\* indicators.py:173-187
FederationResult ==
    /\ fi_pc = "central"
    /\ fi_index = Len(filtered_central)
    /\ fi_result' =
          Update(FederationIndicators([federados |-> fi_federados,
                                       datasets |-> fi_federados + fi_no_federados]),
                 [datasets_federados_eliminados_cant |-> datasets_federados_eliminados_cant,
                  datasets_federados_eliminados |-> datasets_federados_eliminados,
                  datasets_no_federados |-> datasets_no_federados,
                  datasets_federados |-> datasets_federados])
    /\ fi_pc' = "done"
    /\ UNCHANGED <<fi_catalog, fi_central_catalog, fi_index, fi_federados, fi_no_federados,
                   datasets_federados_eliminados_cant, datasets_federados,
                   datasets_no_federados, datasets_federados_eliminados, filtered_central>>
    /\ UNCHANGED <<fedVars, cntVars, indVars, dateVars, eqVars>>

\* indicators.py:130-136
InitReconciler ==
    /\ fi_pc = "local"
    /\ fi_catalog \in ReconcilerCatalogs \cup {Dict(<<>>)}
    /\ fi_central_catalog \in ReconcilerCatalogs
    /\ fi_index = 0
    /\ fi_federados = 0
    /\ fi_no_federados = 0
    /\ datasets_federados_eliminados_cant = 0
    /\ datasets_federados = <<>>
    /\ datasets_no_federados = <<>>
    /\ datasets_federados_eliminados = <<>>
    /\ filtered_central = <<>>
    /\ fi_result = <<>>
    /\ IdleFederation /\ IdleCount /\ IdleIndic /\ IdleDates /\ IdleEqual

NextReconciler == MatchLocalDataset \/ FilterCentral \/ MatchCentralDataset \/ FederationResult

SpecReconciler == InitReconciler /\ [][NextReconciler]_vars

-----------------------------------------------------------------------------
(* Properties of _federation_indicators *)

ReconcilerDone == fi_pc = "done"

\* publisher.name of a dataset, None when publisher or name is missing
PublisherName(d) == TraverseDict(d, <<Key("publisher"), Key("name")>>, NoneValue)

\* identity of two datasets: same title and same publisher.name
SameIdentity(a, b) ==
    DictGet(a, "title") = DictGet(b, "title") /\ PublisherName(a) = PublisherName(b)

\* every dataset of the local catalog has its match in the central catalog
FullyContained ==
    \A i \in DOMAIN DatasetsOf(fi_catalog) :
        \E j \in DOMAIN DatasetsOf(fi_central_catalog) :
            SameIdentity(DatasetsOf(fi_catalog)[i], DatasetsOf(fi_central_catalog)[j])

DeletedLocally(c) ==
    /\ PublisherName(c) # NoneValue
    /\ \E i \in DOMAIN DatasetsOf(fi_catalog) :
          PublisherName(DatasetsOf(fi_catalog)[i]) = PublisherName(c)
    /\ \A i \in DOMAIN DatasetsOf(fi_catalog) : ~SameIdentity(DatasetsOf(fi_catalog)[i], c)

\* C20: datasets_federados_eliminados holds, in the order of the central
\* catalog, the (title, landingPage) of exactly the central datasets whose
\* publisher.name is that of some local dataset and that no local dataset
\* matches; datasets_federados_eliminados_cant is its length.
C20_DeletionDetection ==
    ReconcilerDone =>
        LET flagged == SelectSeq(DatasetsOf(fi_central_catalog), DeletedLocally)
        IN /\ fi_result.datasets_federados_eliminados =
                 [i \in DOMAIN flagged |-> TitleAndLandingPage(flagged[i])]
           /\ fi_result.datasets_federados_eliminados_cant =
                 Len(fi_result.datasets_federados_eliminados)

\* C20 witness: of two central datasets one is flagged, the other belongs to
\* a publisher the local catalog does not know
C20_Witness ==
    /\ ReconcilerDone
    /\ Len(DatasetsOf(fi_central_catalog)) = 2
    /\ fi_result.datasets_federados_eliminados_cant = 1
    /\ \E i \in DOMAIN DatasetsOf(fi_central_catalog) :
          /\ ~DeletedLocally(DatasetsOf(fi_central_catalog)[i])
          /\ \A j \in DOMAIN DatasetsOf(fi_catalog) :
                PublisherName(DatasetsOf(fi_catalog)[j])
                    # PublisherName(DatasetsOf(fi_central_catalog)[i])

\* the local datasets that have (Matched) or lack (~Matched) a dataset of the
\* same identity in the central catalog, in the order of the local catalog
MatchedInCentral(d) ==
    \E j \in DOMAIN DatasetsOf(fi_central_catalog) :
        SameIdentity(d, DatasetsOf(fi_central_catalog)[j])

NotMatchedInCentral(d) == ~MatchedInCentral(d)

TitlesOf(datasets) == [i \in DOMAIN datasets |-> TitleAndLandingPage(datasets[i])]

\* C21: the forward pass classifies every local dataset exactly once: while
\* it runs the two counts add up to the number of datasets taken, and in the
\* result they add up to the number of local datasets, each list is as long
\* as its count and holds its datasets in the order of the local catalog.
C21_ClassifiedExactlyOnce ==
    /\ fi_pc = "local" =>
          /\ fi_federados + fi_no_federados = fi_index
          /\ Len(datasets_federados) = fi_federados
          /\ Len(datasets_no_federados) = fi_no_federados
    /\ ReconcilerDone =>
          /\ fi_result.datasets_federados_cant + fi_result.datasets_no_federados_cant
                = Len(DatasetsOf(fi_catalog))
          /\ Len(fi_result.datasets_federados) = fi_result.datasets_federados_cant
          /\ Len(fi_result.datasets_no_federados) = fi_result.datasets_no_federados_cant
          /\ fi_result.datasets_federados =
                TitlesOf(SelectSeq(DatasetsOf(fi_catalog), MatchedInCentral))
          /\ fi_result.datasets_no_federados =
                TitlesOf(SelectSeq(DatasetsOf(fi_catalog), NotMatchedInCentral))

\* C21 witness: two different local datasets, the first matched by both
\* datasets of the central catalog and counted once, the second not matched
C21_Witness ==
    /\ ReconcilerDone
    /\ Len(DatasetsOf(fi_catalog)) = 2
    /\ Len(DatasetsOf(fi_central_catalog)) = 2
    /\ \A j \in DOMAIN DatasetsOf(fi_central_catalog) :
          SameIdentity(DatasetsOf(fi_catalog)[1], DatasetsOf(fi_central_catalog)[j])
    /\ fi_result.datasets_federados_cant = 1
    /\ fi_result.datasets_no_federados_cant = 1
    /\ fi_result.datasets_federados = <<TitleAndLandingPage(DatasetsOf(fi_catalog)[1])>>

\* C22: for the same arguments the boolean form of datasets_equal returns
\* True exactly when the return_diff=True form returns an empty list, also
\* when the two distribution lists differ in length.
C22_BooleanAgreesWithDiff ==
    eq_pc = "done" =>
        ((eq_result = "True") <=> (~eq_diff.raised /\ eq_diff.diff = <<>>))

-----------------------------------------------------------------------------
(* Order and termination of remove_datasets_from_ckan *)

\* the calls that collect identifiers
Collecting == {"get_datasets", "package_search"}

\* C23: every get_datasets and package_search call comes before every
\* dataset_purge call, and once one of them has failed nothing is purged.
C23_SearchesBeforePurges ==
    op = "remove" =>
        /\ \A i, j \in DOMAIN calls :
              (calls[i].action \in Collecting /\ calls[j].action = "dataset_purge") => i < j
        /\ (\E i \in DOMAIN calls : calls[i].action \in Collecting /\ calls[i].outcome # "ok")
              => CallsOf("dataset_purge") = <<>>

\* C23 witness: two pages were searched, then two identifiers were purged
C23_Witness ==
    /\ RemoveDone
    /\ Len(CallsOf("package_search")) = 2
    /\ Len(CallsOf("dataset_purge")) = 2
    /\ calls[Len(calls)].action = "dataset_purge"

\* remove_datasets_from_ckan alone, every remote call returning (with a
\* result or an exception): a step that can be taken is eventually taken
InitRemove == Init /\ op = "remove"

NextRemove ==
    \/ GetDatasets
    \/ SearchFirstPage
    \/ SearchNextPage
    \/ CombineSources
    \/ PurgeNext
    \/ RemoveReturn

SpecRemoveLive == InitRemove /\ [][NextRemove]_vars /\ WF_vars(NextRemove)

\* C24: remove_datasets_from_ckan terminates: with counts below a bound the
\* pagination issues finitely many package_search calls, start growing by 500
\* with each, and the function then purges and returns, or fails on a call.
C24_Terminates == <>(pc \in {"done", "failed"})

\* C24 witness: the run went through as many pages as the counts allow and returned
C24_Witness ==
    /\ RemoveDone
    /\ Len(CallsOf("package_search")) = MaxPages + 1
    /\ start = (MaxPages + 1) * PageSize
    /\ CallsOf("dataset_purge") # <<>>

====
